---- MODULE Spec2Model ----
(***************************************************************************)
(* pRateLimit (src/src/rateLimit.ts): one limiter built on one             *)
(* QuotaManager.  The JavaScript event loop is modelled as atomic          *)
(* handlers: a limiter(fn) call, a cleanup() call, the settlement          *)
(* callback of a task factory's promise (end + resolve/reject), the        *)
(* follow-up microtask that re-enters next(), the deadline timer callback   *)
(* and the fallback timer callback.  Timer callbacks are macrotasks and    *)
(* run only when no follow-up microtask is pending.                        *)
(*                                                                         *)
(* A task is identified by its submission index 1, 2, 3, ...               *)
(***************************************************************************)
EXTENDS Integers, Sequences, FiniteSets, TLC

\* ------------------------------------------------------------- bounds
MaxTasks == 3          \* limiter(fn) calls in one behaviour
MaxCleanups == 2       \* cleanup() calls in one behaviour
MaxConcurrency == 2    \* quota.concurrency is drawn from 1..MaxConcurrency
MaxRate == 1           \* quota.rate is drawn from 0..MaxRate (0: no rate limit)
MaxLiveTasks == 2      \* limiter(fn) calls in one behaviour of FairSpec
MaxOther == 1          \* tasks a second limiter on the same manager runs at once

Tasks == 1..MaxTasks

VARIABLES
  concurrency,   \* quota.concurrency (fixed at construction)
  rate,          \* quota.rate per interval, 0 when the quota has no rate limit
  maxDelay,      \* quotaManager.maxDelay, 0 when no deadline is configured
  isClosed,      \* limiter closure flag
  qmClosed,      \* the manager's terminal closed state
  queue,         \* Dequeue of runners, as the sequence of their task ids
  timerId,       \* the fallback timer is armed
  armedTimers,   \* fallback timers set by setTimeout and not yet fired
  otherActive,   \* slots held by tasks of a second limiter sharing the manager
  activeCount,   \* quotaManager.activeCount
  windowCount,   \* starts recorded in the manager's current rate window
  nextId,        \* index the next limiter(fn) call gets
  throws,        \* throws[t]: fn of task t throws synchronously when invoked
  deadline,      \* per-task deadline timer: "none", "armed", "fired", "cleared"
  fnState,       \* task factory: "idle", "running", "fulfilled", "rejected", "threw"
  settleCalls,   \* per task, the resolve/reject calls made on its promise, in order
  pendingNext,   \* .then(() => next()) microtasks not yet run
  endCalls,      \* per task, quotaManager.end() calls made by its completion handler
  closeCalls,    \* quotaManager.close() calls
  cleanupCalls,  \* cleanup() calls
  startCalled,   \* the last handler called quotaManager.start()
  order          \* task ids in the order their factories were invoked

config == <<concurrency, rate, maxDelay>>
vars == <<concurrency, rate, maxDelay, isClosed, qmClosed, queue, timerId,
          armedTimers, otherActive, activeCount, windowCount, nextId, throws, deadline, fnState,
          settleCalls, pendingNext, endCalls, closeCalls, cleanupCalls,
          startCalled, order>>

\* ------------------------------------------------------------- promise
\* A promise takes the first resolve/reject call made on it; later calls are ignored.
PromiseState(t) ==
  IF t >= nextId THEN "none"
  ELSE IF settleCalls[t] = <<>> THEN "pending"
  ELSE settleCalls[t][1]

Range(s) == {s[i] : i \in 1..Len(s)}

\* ------------------------------------------------------------- QuotaManager
\* The part of the state a synchronous run of next() reads and writes.
Local ==
  [queue |-> queue, activeCount |-> activeCount, windowCount |-> windowCount,
   timerId |-> timerId, armedTimers |-> armedTimers,
   deadline |-> deadline, fnState |-> fnState,
   order |-> order, ret |-> FALSE, startCalled |-> FALSE, thrown |-> 0]

\* start(): admit one operation if the manager is open, a concurrency slot is
\* free and the rate window has room; no state change when it returns false.
start(s) ==
  IF ~qmClosed /\ s.activeCount < concurrency /\ (rate = 0 \/ s.windowCount < rate)
  THEN [s EXCEPT !.activeCount = @ + 1,
                 !.windowCount = IF rate > 0 THEN @ + 1 ELSE @,
                 !.ret = TRUE, !.startCalled = TRUE]
  ELSE [s EXCEPT !.ret = FALSE, !.startCalled = TRUE]

\* ------------------------------------------------------------- Dequeue
\* Insertion at the front of the queue instead of the tail.
push_front(q, t) == <<t>> \o q

\* queue.push(run)
push(q, t) == Append(q, t)

\* ------------------------------------------------------------- run
\* run with the `timeout already fired` return left out.
run_noTimeoutCheck(s, t) ==
  LET c == IF maxDelay > 0 THEN [s EXCEPT !.deadline[t] = "cleared"] ELSE s
  IN IF throws[t]
     THEN [c EXCEPT !.fnState[t] = "threw", !.order = Append(@, t), !.thrown = t]
     ELSE [c EXCEPT !.fnState[t] = "running", !.order = Append(@, t)]

\* run with clearTimeout(timerId) left out.
run_noClearTimeout(s, t) ==
  IF maxDelay > 0 /\ s.deadline[t] # "armed"
  THEN s
  ELSE IF throws[t]
       THEN [s EXCEPT !.fnState[t] = "threw", !.order = Append(@, t), !.thrown = t]
       ELSE [s EXCEPT !.fnState[t] = "running", !.order = Append(@, t)]

\* The runner closure of task t, invoked by next() right after queue.shift().
run(s, t) ==
  IF maxDelay > 0 /\ s.deadline[t] # "armed"
  THEN s                                     \* timeout already fired
  ELSE LET c == IF maxDelay > 0 THEN [s EXCEPT !.deadline[t] = "cleared"] ELSE s
       IN IF throws[t]
          THEN [c EXCEPT !.fnState[t] = "threw", !.order = Append(@, t), !.thrown = t]
          ELSE [c EXCEPT !.fnState[t] = "running", !.order = Append(@, t)]

\* ------------------------------------------------------------- next
\* The loop admitting the head whatever start() answers.
RECURSIVE drain_ignoresStart(_)
drain_ignoresStart(s) ==
  IF isClosed \/ Len(s.queue) = 0 THEN s
  ELSE LET a == start(s)
           r == run([a EXCEPT !.queue = Tail(@)], Head(a.queue)) IN
       IF r.thrown # 0 THEN r ELSE drain_ignoresStart(r)

\* The loop without the !isClosed conjunct.
RECURSIVE drain_ignoresClosed(_)
drain_ignoresClosed(s) ==
  IF Len(s.queue) = 0 THEN s
  ELSE LET a == start(s) IN
       IF ~a.ret THEN a
       ELSE LET r == run([a EXCEPT !.queue = Tail(@)], Head(a.queue)) IN
            IF r.thrown # 0 THEN r ELSE drain_ignoresClosed(r)

\* The while loop of next(): lines 33-35.
RECURSIVE drain(_)
drain(s) ==
  IF isClosed \/ Len(s.queue) = 0 THEN s
  ELSE LET a == start(s) IN
       IF ~a.ret THEN a
       ELSE LET r == run([a EXCEPT !.queue = Tail(@)], Head(a.queue)) IN
            IF r.thrown # 0 THEN r ELSE drain(r)

\* next() without the fallback timer.
next_neverArms(s) == drain(s)

\* next() arming the fallback timer without the !timerId test.
next_noTimerCheck(s) ==
  LET d == drain(s) IN
  IF d.thrown # 0 THEN d
  ELSE IF Len(d.queue) > 0 /\ d.activeCount = 0
       THEN [d EXCEPT !.timerId = TRUE, !.armedTimers = @ + 1]
       ELSE d

\* next() arming the fallback timer without the !activeCount test.
next_armsWhileActive(s) ==
  LET d == drain(s) IN
  IF d.thrown # 0 THEN d
  ELSE IF Len(d.queue) > 0 /\ ~d.timerId
       THEN [d EXCEPT !.timerId = TRUE, !.armedTimers = @ + 1]
       ELSE d

\* next(): the drain loop, then the fallback timer (lines 37-42).
next(s) ==
  LET d == drain(s) IN
  IF d.thrown # 0 THEN d               \* the exception leaves next()
  ELSE IF Len(d.queue) > 0 /\ d.activeCount = 0 /\ ~d.timerId
       THEN [d EXCEPT !.timerId = TRUE, !.armedTimers = @ + 1]
       ELSE d

\* The variables a run of next() leaves behind.
Commit(r) ==
  /\ queue' = r.queue
  /\ activeCount' = r.activeCount
  /\ windowCount' = r.windowCount
  /\ timerId' = r.timerId
  /\ armedTimers' = r.armedTimers
  /\ deadline' = r.deadline
  /\ fnState' = r.fnState
  /\ order' = r.order
  /\ startCalled' = r.startCalled

\* ------------------------------------------------------------- Init
Init ==
  /\ concurrency \in 1..MaxConcurrency
  /\ rate \in 0..MaxRate
  /\ maxDelay \in {0, 50}
  /\ isClosed = FALSE
  /\ qmClosed = FALSE
  /\ queue = <<>>
  /\ timerId = FALSE
  /\ armedTimers = 0
  /\ otherActive = 0
  /\ activeCount = 0
  /\ windowCount = 0
  /\ nextId = 1
  /\ throws = [t \in Tasks |-> FALSE]
  /\ deadline = [t \in Tasks |-> "none"]
  /\ fnState = [t \in Tasks |-> "idle"]
  /\ settleCalls = [t \in Tasks |-> <<>>]
  /\ pendingNext = 0
  /\ endCalls = [t \in Tasks |-> 0]
  /\ closeCalls = 0
  /\ cleanupCalls = 0
  /\ startCalled = FALSE
  /\ order = <<>>

\* ------------------------------------------------------------- limiter
\* What a resolve/reject call on the promise of task t appends to its record.
settle(t, kind) == settleCalls' = [settleCalls EXCEPT ![t] = Append(@, kind)]

\* The executor of an open limiter without the deadline timer.
enqueue_noDeadline(t, th) ==
  /\ throws' = [throws EXCEPT ![t] = th]
  /\ LET r == next([Local EXCEPT !.queue = push(@, t)])
     IN /\ Commit(r)
        /\ IF r.thrown = 0 THEN UNCHANGED settleCalls
           ELSE settle(t, IF r.thrown = t THEN "thrown" ELSE "thrownByOther")

\* The executor of an open limiter: arm the deadline timer, push the runner,
\* call next(); an exception leaving next() rejects the promise under
\* construction.
enqueue(t, th) ==
  /\ throws' = [throws EXCEPT ![t] = th]
  /\ LET armed == IF maxDelay > 0
                  THEN [deadline EXCEPT ![t] = "armed"] ELSE deadline
         r == next([Local EXCEPT !.deadline = armed, !.queue = push(@, t)])
     IN /\ Commit(r)
        /\ IF r.thrown = 0 THEN UNCHANGED settleCalls
           ELSE settle(t, IF r.thrown = t THEN "thrown" ELSE "thrownByOther")

\* limiter without the isClosed test.
limiter_noClosedCheck(t, th) ==
  /\ nextId' = t + 1
  /\ enqueue(t, th)
  /\ UNCHANGED <<config, otherActive, isClosed, qmClosed, pendingNext,
                 endCalls, closeCalls, cleanupCalls>>

\* limiter(fn), the call that gets submission index t.
limiter(t, th) ==
  /\ nextId' = t + 1
  /\ IF isClosed
     THEN /\ settle(t, "closed")
          /\ startCalled' = FALSE
          /\ UNCHANGED <<queue, activeCount, windowCount, timerId, armedTimers,
                         deadline, fnState, order, throws>>
     ELSE enqueue(t, th)
  /\ UNCHANGED <<config, otherActive, isClosed, qmClosed, pendingNext,
                 endCalls, closeCalls, cleanupCalls>>

Submit ==
  /\ nextId <= MaxTasks
  /\ \E th \in BOOLEAN : limiter(nextId, th)

\* ------------------------------------------------------------- cleanup
\* cleanup without the `if (isClosed) return`.
cleanupFn_noGuard ==
  /\ cleanupCalls' = cleanupCalls + 1
  /\ startCalled' = FALSE
  /\ qmClosed' = TRUE
  /\ closeCalls' = closeCalls + 1
  /\ isClosed' = TRUE
  /\ UNCHANGED <<config, otherActive, queue, timerId, armedTimers,
                 activeCount, windowCount, nextId, throws, deadline,
                 fnState, settleCalls, pendingNext, endCalls, order>>

cleanupFn ==
  /\ cleanupCalls' = cleanupCalls + 1
  /\ startCalled' = FALSE
  /\ IF isClosed
     THEN UNCHANGED <<qmClosed, closeCalls, isClosed>>
     ELSE /\ qmClosed' = TRUE
          /\ closeCalls' = closeCalls + 1
          /\ isClosed' = TRUE
  /\ UNCHANGED <<config, otherActive, queue, timerId, armedTimers,
                 activeCount, windowCount, nextId, throws, deadline,
                 fnState, settleCalls, pendingNext, endCalls, order>>

Cleanup ==
  /\ cleanupCalls < MaxCleanups
  /\ cleanupFn

\* ------------------------------------------------------------- completion
\* fn()'s promise settles: .then(val => {end(); resolve(val)}) or
\* .catch(err => {end(); reject(err)}); the trailing .then(() => next()) is
\* a later microtask.
\* The completion handlers with end() missing from the .catch branch.
Settle_noEndOnReject(t, ok) ==
  /\ fnState[t] = "running"
  /\ fnState' = [fnState EXCEPT ![t] = IF ok THEN "fulfilled" ELSE "rejected"]
  /\ activeCount' = IF ok THEN activeCount - 1 ELSE activeCount
  /\ endCalls' = [endCalls EXCEPT ![t] = IF ok THEN @ + 1 ELSE @]
  /\ settle(t, IF ok THEN "value" ELSE "error")
  /\ pendingNext' = pendingNext + 1
  /\ startCalled' = FALSE
  /\ UNCHANGED <<config, otherActive, isClosed, qmClosed, queue, timerId,
                 armedTimers, windowCount, nextId, throws, deadline,
                 closeCalls, cleanupCalls, order>>

Settle(t, ok) ==
  /\ fnState[t] = "running"
  /\ fnState' = [fnState EXCEPT ![t] = IF ok THEN "fulfilled" ELSE "rejected"]
  /\ activeCount' = activeCount - 1
  /\ endCalls' = [endCalls EXCEPT ![t] = @ + 1]
  /\ settle(t, IF ok THEN "value" ELSE "error")
  /\ pendingNext' = pendingNext + 1
  /\ startCalled' = FALSE
  /\ UNCHANGED <<config, otherActive, isClosed, qmClosed, queue, timerId,
                 armedTimers, windowCount, nextId, throws, deadline,
                 closeCalls, cleanupCalls, order>>

Complete == \E t \in Tasks, ok \in BOOLEAN : Settle(t, ok)

\* .then(() => next()); an exception leaving next() here is an unhandled
\* rejection of the chain and settles no limiter promise.
AfterSettle ==
  /\ pendingNext > 0
  /\ pendingNext' = pendingNext - 1
  /\ Commit(next(Local))
  /\ UNCHANGED <<config, otherActive, isClosed, qmClosed, nextId, throws,
                 settleCalls, endCalls, closeCalls, cleanupCalls>>

\* ------------------------------------------------------------- timers
\* The deadline timer of task t fires.
DeadlineFire(t) ==
  /\ pendingNext = 0
  /\ deadline[t] = "armed"
  /\ settle(t, "timeout")
  /\ Commit(next([Local EXCEPT !.deadline[t] = "fired"]))
  /\ UNCHANGED <<config, otherActive, isClosed, qmClosed, nextId, throws,
                 pendingNext, endCalls, closeCalls, cleanupCalls>>

Deadline == \E t \in Tasks : DeadlineFire(t)

\* The fallback timer fires.
FallbackFire ==
  /\ pendingNext = 0
  /\ armedTimers > 0
  /\ Commit(next([Local EXCEPT !.timerId = FALSE, !.armedTimers = @ - 1]))
  /\ UNCHANGED <<config, otherActive, isClosed, qmClosed, nextId, throws,
                 settleCalls, pendingNext, endCalls, closeCalls, cleanupCalls>>

\* The manager's rate interval elapses: the window's recorded starts expire.
WindowElapses ==
  /\ rate > 0
  /\ windowCount > 0
  /\ windowCount' = 0
  /\ startCalled' = FALSE
  /\ UNCHANGED <<config, otherActive, isClosed, qmClosed, queue, timerId,
                 armedTimers, activeCount, nextId, throws, deadline, fnState,
                 settleCalls, pendingNext, endCalls, closeCalls, cleanupCalls,
                 order>>

\* ------------------------------------------------------------- specification
Next ==
  \/ Submit
  \/ Cleanup
  \/ Complete
  \/ AfterSettle
  \/ Deadline
  \/ FallbackFire
  \/ WindowElapses

Spec == Init /\ [][Next]_vars

\* Every started factory's promise settles, every queued microtask runs and
\* every armed timer fires; rate windows elapse.
Fairness ==
  /\ WF_vars(Complete)
  /\ WF_vars(AfterSettle)
  /\ \A t \in Tasks : WF_vars(DeadlineFire(t))
  /\ WF_vars(FallbackFire)
  /\ WF_vars(WindowElapses)

\* The same handlers with fewer limiter(fn) calls, for the liveness checks.
FairSubmit ==
  /\ nextId <= MaxLiveTasks
  /\ Submit

FairNext ==
  \/ FairSubmit
  \/ Cleanup
  \/ Complete
  \/ AfterSettle
  \/ Deadline
  \/ FallbackFire
  \/ WindowElapses

FairSpec == Init /\ [][FairNext]_vars /\ Fairness

\* ------------------------------------------------------------- shared manager
\* A second limiter built by pRateLimit from the same QuotaManager instance
\* (lines 18-20), seen from this limiter: it takes and returns slots of the
\* shared manager, and its handlers call its own next() only, whose queue
\* and timer are not this limiter's.
\* The other limiter's next() admits one of its tasks: start() succeeded.
OtherStart ==
  /\ otherActive < MaxOther
  /\ LET r == start(Local) IN
       /\ r.ret
       /\ activeCount' = r.activeCount
       /\ windowCount' = r.windowCount
  /\ otherActive' = otherActive + 1
  /\ startCalled' = FALSE
  /\ UNCHANGED <<config, isClosed, qmClosed, queue, timerId, armedTimers,
                 nextId, throws, deadline, fnState, settleCalls, pendingNext,
                 endCalls, closeCalls, cleanupCalls, order>>

\* A task of the other limiter settles: end() on the shared manager, then
\* the other limiter's next().
OtherEnd ==
  /\ otherActive > 0
  /\ activeCount' = activeCount - 1
  /\ otherActive' = otherActive - 1
  /\ startCalled' = FALSE
  /\ UNCHANGED <<config, isClosed, qmClosed, queue, timerId, armedTimers,
                 windowCount, nextId, throws, deadline, fnState, settleCalls,
                 pendingNext, endCalls, closeCalls, cleanupCalls, order>>

\* Two open limiters on one manager with a concurrency-only quota.
SharedInit ==
  /\ Init
  /\ rate = 0
  /\ maxDelay = 0

SharedNext ==
  \/ Submit
  \/ Complete
  \/ AfterSettle
  \/ OtherStart
  \/ OtherEnd

\* Every started factory of either limiter settles and every queued
\* microtask runs; limiter(fn) calls are not forced.
SharedSpec ==
  /\ SharedInit
  /\ [][SharedNext]_vars
  /\ WF_vars(Complete)
  /\ WF_vars(AfterSettle)
  /\ WF_vars(OtherEnd)


\* ------------------------------------------------------------- properties
Running == {t \in Tasks : fnState[t] = "running"}
Invoked(t) == fnState[t] # "idle"
TimedOut(t) == "timeout" \in Range(settleCalls[t])
Count(k, kinds) == Cardinality({i \in 1..Len(k) : k[i] \in kinds})

\* C1: the number of task factories started and not yet settled never
\* exceeds the quota's concurrency limit.
C1_ConcurrencyBound == Cardinality(Running) <= concurrency

C1_Witness ==
  /\ concurrency = 2
  /\ Cardinality(Running) = 2
  /\ Len(queue) > 0

\* C2: factories are invoked in submission order, and under concurrency 1
\* with no rate limit a factory is invoked only when no earlier-submitted
\* task is still running.
C2_FIFO ==
  [][ /\ \A i, j \in 1..Len(order') : i < j => order'[i] < order'[j]
      /\ (concurrency = 1 /\ rate = 0) =>
           \A t \in Tasks :
             (~Invoked(t) /\ Invoked(t)') =>
               \A u \in 1..(t - 1) : fnState'[u] # "running" ]_vars

C2_Witness ==
  /\ concurrency = 1
  /\ rate = 0
  /\ order = <<1, 2, 3>>
  /\ fnState[1] \in {"fulfilled", "rejected"}
  /\ fnState[3] = "running"

\* C3: of the timeout rejection and the settlement with the task's outcome,
\* at most one call is ever made on a task's promise; only a promise rejected
\* by another task's synchronous throw sees a second call at all.
C3_SettleOnce ==
  \A t \in Tasks :
    /\ Count(settleCalls[t], {"timeout", "value", "error"}) <= 1
    /\ Len(settleCalls[t]) > 1 => settleCalls[t][1] = "thrownByOther"

C3_Witness ==
  \E t \in Tasks :
    /\ t < nextId
    /\ settleCalls[t] = <<"timeout">>
    /\ t \notin Range(queue)
    /\ \E u \in Tasks : u > t /\ Invoked(u)

\* C4: provided every started task factory settles (none throws
\* synchronously instead) and every armed timer fires, every promise returned
\* by limiter(fn) eventually settles, also when cleanup() is called while the
\* task is queued and no maxDelay is configured.
SomeFactoryThrew == \E u \in Tasks : fnState[u] = "threw"

C4_EverySubmissionSettles ==
  \A t \in Tasks :
    (PromiseState(t) = "pending") ~>
      (PromiseState(t) # "pending" \/ SomeFactoryThrew)

\* C5: a task entry moves queued -> running -> settled or
\* queued -> abandoned, never back: after the deadline fired the factory is
\* not invoked and the promise not resolved; after the factory was invoked
\* the promise is not rejected with the timeout error.
Phase(t) ==
  IF t >= nextId THEN "new"
  ELSE IF PromiseState(t) = "closed" THEN "refused"
  ELSE IF fnState[t] = "running" THEN "running"
  ELSE IF fnState[t] \in {"fulfilled", "rejected"} THEN "settled"
  ELSE IF fnState[t] = "threw" THEN "threw"
  ELSE IF deadline[t] = "fired" THEN "abandoned"
  ELSE "queued"

Forward ==
  { <<"new", "queued">>, <<"new", "running">>, <<"new", "threw">>,
    <<"new", "refused">>, <<"queued", "running">>, <<"queued", "threw">>,
    <<"queued", "abandoned">>, <<"running", "settled">> }

C5_NoWayBack ==
  [][ \A t \in Tasks :
        /\ Phase(t)' = Phase(t) \/ <<Phase(t), Phase(t)'>> \in Forward
        /\ (deadline[t] = "fired")' =>
             (~Invoked(t) /\ "value" \notin Range(settleCalls[t]))'
        /\ Invoked(t)' => ~TimedOut(t)' ]_vars

C5_Witness ==
  /\ \E t \in Tasks : Phase(t) = "abandoned" /\ t \notin Range(queue)
  /\ \E t \in Tasks : Phase(t) = "settled"

\* C6: with maxDelay > 0 no task stays in the queue indefinitely with its
\* factory not invoked and its promise not rejected with the timeout error.
Waits(t) == t \in Range(queue) /\ ~(Invoked(t) \/ TimedOut(t))

C6_QueuedIsStartedOrShed ==
  \A t \in Tasks : []<>(maxDelay > 0 => ~Waits(t))

C6_Witness ==
  /\ maxDelay > 0
  /\ isClosed
  /\ \E t \in Tasks : t \in Range(queue) /\ TimedOut(t) /\ ~Invoked(t)

\* C7: a limiter(fn) call on a closed limiter rejects its promise with the
\* already-closed error and changes nothing else: fn is never invoked, the
\* queue and the timers are untouched and start() is not called.
C7_ClosedRejects ==
  [][ /\ \A c \in Tasks : (isClosed /\ nextId = c /\ nextId' # c) =>
           /\ PromiseState(c)' = "closed"
           /\ ~startCalled'
           /\ UNCHANGED <<queue, timerId, activeCount, windowCount, deadline,
                          fnState, order, pendingNext, endCalls, isClosed>>
      /\ \A t \in Tasks :
           (PromiseState(t) = "closed")' =>
             (~Invoked(t) /\ deadline[t] = "none" /\ t \notin Range(queue))' ]_vars

C7_Witness ==
  /\ isClosed
  /\ Len(queue) > 0
  /\ \E t \in Tasks : PromiseState(t) = "closed"

\* C8: close() is called on the manager exactly once, by the first
\* cleanup(); a later cleanup() changes no state of the limiter.
C8_CleanupIdempotent ==
  [][ /\ closeCalls' = IF cleanupCalls' > 0 THEN 1 ELSE 0
      /\ (cleanupCalls > 0 /\ cleanupCalls' # cleanupCalls) =>
           UNCHANGED <<config, otherActive, isClosed, qmClosed, queue, timerId,
                       activeCount, windowCount, nextId, throws, deadline,
                       fnState, settleCalls, pendingNext, endCalls,
                       closeCalls, order, armedTimers>> ]_vars

C8_Witness ==
  /\ cleanupCalls = 2
  /\ closeCalls = 1
  /\ Running # {}

\* C9: once cleanup() has run, no handler dequeues an entry, invokes a task
\* factory or calls start().
C9_NothingStartsAfterCleanup ==
  [][ isClosed => (order' = order /\ queue' = queue /\ ~startCalled') ]_vars

C9_Witness ==
  /\ isClosed
  /\ Len(queue) > 0
  /\ activeCount = 0
  /\ pendingNext = 0
  /\ \E t \in Tasks : fnState[t] \in {"fulfilled", "rejected"}
  /\ \E t \in Tasks : deadline[t] = "fired" /\ t \in Range(queue)

\* C10: end() has been called exactly once for every task whose factory was
\* invoked and whose promise settled, fulfilled or rejected, and never for a
\* task whose factory's promise has not settled, abandoned runners included.
C10_EndOncePerSettledFactory ==
  \A t \in Tasks :
    fnState[t] # "threw" =>
      endCalls[t] = IF fnState[t] \in {"fulfilled", "rejected"} THEN 1 ELSE 0

C10_Witness ==
  /\ \E t \in Tasks : fnState[t] = "fulfilled" /\ endCalls[t] = 1
  /\ \E t \in Tasks : fnState[t] = "rejected" /\ endCalls[t] = 1
  /\ \E t \in Tasks :
       Phase(t) = "abandoned" /\ t \notin Range(queue) /\ endCalls[t] = 0

\* C11: between handlers the manager's activeCount equals the number of
\* task factories started and not yet settled, and lies in 0..concurrency,
\* for every sequence of submissions, completions and deadline timeouts.
C11_ActiveCountIsRunning ==
  ~SomeFactoryThrew =>
    /\ activeCount = Cardinality(Running)
    /\ 0 <= activeCount
    /\ activeCount <= concurrency

\* C12: under a concurrency-only quota with maxDelay > 0 and the limiter
\* open, when no handler is pending and no task factory is running, every
\* entry left in the queue is one whose deadline has fired.
C12_TimedOutEntriesDoNotBlock ==
  ( /\ rate = 0
    /\ maxDelay > 0
    /\ ~isClosed
    /\ pendingNext = 0
    /\ ~SomeFactoryThrew
    /\ Running = {} ) =>
      \A t \in Range(queue) : deadline[t] = "fired"

\* C13: when the promise of a started task factory rejects with e, the
\* promise limiter(fn) returned is rejected with e itself, end() is called
\* once for the task, and the follow-up call of next() is queued as after a
\* fulfilment.
C13_RejectionPropagates ==
  [][ \A t \in Tasks :
        (fnState[t] = "running" /\ fnState'[t] = "rejected") =>
          /\ PromiseState(t)' = "error"
          /\ endCalls'[t] = 1
          /\ activeCount' = activeCount - 1
          /\ pendingNext' = pendingNext + 1 ]_vars

\* C14: at most one fallback timer is outstanding, and timerId tells
\* whether one is.
C14_OneFallbackTimer ==
  /\ armedTimers <= 1
  /\ timerId <=> armedTimers = 1

C14_Witness ==
  /\ armedTimers = 1
  /\ Len(queue) = 2
  /\ \E t \in Tasks : fnState[t] \in {"fulfilled", "rejected"}

\* C15: once next() has returned and no handler is pending, a non-empty
\* queue with activeCount = 0 has a fallback timer armed; and next() arms the
\* timer only with the queue non-empty and activeCount = 0.
ArmsFallback ==
  \/ armedTimers' > armedTimers
  \/ FallbackFire /\ armedTimers' = armedTimers

C15_FallbackArmedWhenIdle ==
  [][ /\ (pendingNext' = 0 /\ Len(queue') > 0 /\ activeCount' = 0) => timerId'
      /\ ArmsFallback => (Len(queue') > 0 /\ activeCount' = 0) ]_vars

C15_Witness ==
  /\ ~isClosed
  /\ timerId
  /\ pendingNext = 0
  /\ Len(queue) > 0
  /\ activeCount = 0

\* C16: under a rate-window quota with no maxDelay, an open limiter never
\* leaves a task in the queue forever while nothing is active and start()
\* would admit: the fallback timer re-invokes next() and the head is started.
WouldAdmit == start(Local).ret

WaitsIdle(t) ==
  /\ rate > 0
  /\ maxDelay = 0
  /\ ~isClosed
  /\ t \in Range(queue)
  /\ activeCount = 0
  /\ WouldAdmit

C16_FallbackStartsQueuedTask ==
  \A t \in Tasks : []<>~WaitsIdle(t)

C16_Witness ==
  /\ timerId
  /\ pendingNext = 0
  /\ \E t \in Tasks : WaitsIdle(t)

\* C17: the loop is work-conserving.  Each time next() returns on an open
\* limiter the queue is empty or start() would refuse; and, with no rate
\* limit, a limiter(fn) call made with the queue empty and fewer than
\* concurrency factories running invokes fn within the call, and the next()
\* after a completion invokes a queued live task when a slot is free.
NextReturns ==
  /\ \/ Submit /\ ~isClosed
     \/ AfterSettle
     \/ Deadline
     \/ FallbackFire
  /\ \A t \in Tasks : fnState'[t] = "threw" => fnState[t] = "threw"

Live(t) == t \in Range(queue) /\ deadline[t] # "fired"

C17_WorkConserving ==
  [][ (~isClosed /\ ~SomeFactoryThrew') =>
        /\ NextReturns => (Len(queue') = 0 \/ ~WouldAdmit')
        /\ \A c \in Tasks :
             ( /\ rate = 0
               /\ nextId = c /\ nextId' # c
               /\ queue = <<>>
               /\ Cardinality(Running) < concurrency ) => Invoked(c)'
        /\ ( /\ rate = 0
             /\ AfterSettle
             /\ Cardinality(Running) < concurrency
             /\ \E t \in Tasks : Live(t) ) =>
               \E t \in Tasks : Live(t) /\ Invoked(t)' ]_vars

\* C18: when a task factory throws synchronously, that task's own promise
\* is rejected with the thrown error, end() is called once for the slot
\* start() granted, and no other task's promise is settled with the error.
C18_SyncThrowIsContained ==
  \A t \in Tasks :
    /\ fnState[t] = "threw" =>
         (PromiseState(t) = "thrown" /\ endCalls[t] = 1)
    /\ "thrownByOther" \notin Range(settleCalls[t])

\* A closed limiter with nothing left to wait for: no factory running, no
\* deadline timer pending, no completion microtask pending.
ClosedAndDrained ==
  /\ isClosed
  /\ Running = {}
  /\ pendingNext = 0
  /\ \A t \in Tasks : deadline[t] # "armed"

\* C19: after cleanup(), once every running task has settled and every
\* deadline timer has fired, the fallback timer is eventually never armed
\* again, even when entries remain in the queue.
C19_ClosedLimiterQuiesces == <>[](ClosedAndDrained => ~timerId)

\* C20: with two open limiters on one concurrency-only QuotaManager and no
\* maxDelay, a task queued in this limiter while a task of the other
\* limiter holds a slot is eventually started, no factory having thrown.
C20_SharedManagerStartsQueued ==
  \A t \in Tasks :
    (t \in Range(queue) /\ otherActive > 0) ~> (Invoked(t) \/ SomeFactoryThrew)

====
